---- MODULE Spec2Model ----
(***************************************************************************)
(* Model of the resource lifecycle and garbage-collection engine of the    *)
(* VPC service: the per-subnet excess-branch-ENI reclaimer                 *)
(* (vpc/service/delete_excess_branches.go) and the GC3 reconciliation      *)
(* cycle (package gc3).                                                    *)
(*                                                                         *)
(* The ledger is the pair of tables branch_enis / branch_eni_attachments,  *)
(* the cloud is the provider's inventory of network interfaces.  A branch  *)
(* ENI is identified with its ordering key `id`.  Durations are seconds.   *)
(***************************************************************************)
EXTENDS Integers, Sequences, FiniteSets, TLC

(***************************************************************************)
(* Program constants (delete_excess_branches.go, const block).             *)
(***************************************************************************)
warmPoolPerSubnet == 50
timeBetweenErrors == 10
timeBetweenNoDeletions == 120
timeBetweenDeletions == 5

(***************************************************************************)
(* Bounds of the model.                                                    *)
(***************************************************************************)
\* rows of subnet-a beyond the warm pool in the initial ledger
MaxExcess == 3
\* rows of subnet-b in the initial ledger
MaxOther == 2
\* rows of the warm pool (beyond the excess ones) an attacher may claim
MaxWarmAttach == 1
\* interfaces that initially carry extra addresses on the cloud side
MaxDirty == 1
\* largest number of IPv4 / IPv6 addresses an interface carries
MaxIPv4 == 2
MaxIPv6 == 1
\* interfaces removed from the cloud by somebody else than the reclaimer
MaxExternal == 1

VARIABLES
    \* ---- the ledger (committed state of the database)
    branch_enis,             \* set of branch ENI rows (ids)
    branch_eni_attachments,  \* set of branch ENIs that have an attachment row
    \* ---- the cloud provider's inventory
    cloud,                   \* set of the network interfaces that exist
    addresses,               \* ENI -> [ipv4, ipv6], where not one IPv4 address
    externallyDeleted,       \* interfaces somebody else removed from the cloud
    \* ---- work items returned by the item lister
    items,
    \* ---- one reclaimer loop per item (functions over Subnets)
    pc,                      \* position of the loop / of the cycle
    tx,                      \* state of the cycle's database transaction
    branchENI,               \* the row returned by the DELETE ... RETURNING
    deleteResp,              \* answer of DeleteNetworkInterface in this cycle
    ret,                     \* (branchesDeleted, err) of the last invocation
    resetTime,               \* delay chosen by the loop
    elapsed,                 \* time waited so far in waitFor
    loopErr,                 \* value returned by the loop once it has returned
    cancelled,               \* the parent context is cancelled
    cloudDeleteLog,          \* every DeleteNetworkInterface call, in order
    \* ---- a concurrent attacher transaction
    apc, aTarget,
    \* ---- one node's GC3 cycles
    gpc,                     \* position of GC
    sourceOfTruth,           \* args.SourceOfTruth
    body,                    \* the document fetched from the source of truth
    req,                     \* the GCRequestV3 built in this cycle
    removed,                 \* resp.RemovedAssignments
    idx,                     \* position of the range loop in removed
    step,                    \* the call the loop body is about to make
    result,                  \* the multierror: the task IDs of its errors
    gcErr,                   \* the error GC returned
    calls,                   \* the calls of this cycle, in order
    faults,                  \* the per-item calls that failed in this cycle
    assignments,             \* the allocation service's recorded assignments
    tornDown,                \* task IDs whose local network is torn down
    cycles,                  \* GC cycles started so far
    \* ---- getSubnets, the item lister
    lpc,                     \* position of getSubnets
    ltx,                     \* state of its read-only transaction
    subnetRows,              \* the rows the query yields, in order
    cursor,                  \* rows fetched so far by rows.Next()
    lret,                    \* the local slice ret
    rowsErr,                 \* rows.Next() ended the iteration on an error
    lout                     \* what getSubnets returned

reclaimVars == <<branch_enis, branch_eni_attachments, cloud, addresses, externallyDeleted,
                 items, pc, tx, branchENI, deleteResp, ret, resetTime,
                 elapsed, loopErr, cancelled, cloudDeleteLog,
                 apc, aTarget>>

gcVars == <<gpc, sourceOfTruth, body, req, removed, idx, step, result, gcErr,
            calls, faults, assignments, tornDown, cycles>>

listVars == <<lpc, ltx, subnetRows, cursor, lret, rowsErr, lout>>

vars == <<reclaimVars, gcVars, listVars>>

(***************************************************************************)
(* Data.                                                                   *)
(***************************************************************************)
Subnets == {"subnet-a", "subnet-b"}

NoENI == 0
NumA == warmPoolPerSubnet + MaxExcess
AllENIs == 1..(NumA + MaxOther)

\* the subnet_id column of a branch_enis row
SubnetOf(e) == IF e <= NumA THEN "subnet-a" ELSE "subnet-b"

NoErr == "nil"
NoRet == [deleted |-> FALSE, err |-> NoErr]

Min(a, b) == IF a <= b THEN a ELSE b
Range(f) == {f[i] : i \in DOMAIN f}

(***************************************************************************)
(* The DELETE statement of doDeleteExcessBranches.                         *)
(***************************************************************************)
\* SELECT branch_eni FROM branch_enis WHERE branch_eni NOT IN
\*   (SELECT branch_eni FROM branch_eni_attachments) AND subnet_id = $1
UnattachedNoSubnetFilter(rows, attachments, subnetID) ==
    {e \in rows : e \notin attachments}

Unattached(rows, attachments, subnetID) ==
    {e \in rows : e \notin attachments /\ SubnetOf(e) = subnetID}

\* ORDER BY id DESC
RECURSIVE DescBetween(_, _, _)
DescBetween(S, lo, hi) ==
    IF lo > hi THEN <<>>
    ELSE IF lo = hi THEN (IF lo \in S THEN <<lo>> ELSE <<>>)
    ELSE LET mid == (lo + hi) \div 2
         IN  DescBetween(S, mid + 1, hi) \o DescBetween(S, lo, mid)

OrderByIdDesc(S) == DescBetween(S, 1, NumA + MaxOther)

\* LIMIT limit OFFSET offset
LimitOffset(sq, limit, offset) ==
    SubSeq(sq, offset + 1, Min(Len(sq), offset + limit))

\* the row the statement deletes and returns, NoENI for sql.ErrNoRows
SelectExcessBranch(rows, attachments, subnetID) ==
    LET sel == LimitOffset(OrderByIdDesc(Unattached(rows, attachments, subnetID)),
                           1, warmPoolPerSubnet)
    IN  IF sel = <<>> THEN NoENI ELSE sel[1]

(***************************************************************************)
(* Local decisions of doDeleteExcessBranches and of the loop.              *)
(***************************************************************************)
\* the two address checks on the described interface: the error, or NoErr
CheckAddressesNoIPv4(d) ==
    IF d.ipv6 > 0 THEN "ipv6" ELSE NoErr

CheckAddresses(d) ==
    IF d.ipv6 > 0 THEN "ipv6"
    ELSE IF d.ipv4 > 1 THEN "ipv4"
    ELSE NoErr

\* what the cycle returns for an answer of DeleteNetworkInterface
DeleteOutcomeNotFoundIsError(resp) ==
    IF resp = "ok" THEN [deleted |-> TRUE, err |-> NoErr]
    ELSE [deleted |-> FALSE, err |-> "leak"]

DeleteOutcomeSwallowLeak(resp) ==
    [deleted |-> TRUE, err |-> NoErr]

DeleteOutcome(resp) ==
    IF resp = "ok" THEN [deleted |-> TRUE, err |-> NoErr]
    ELSE IF resp = "notfound" THEN [deleted |-> TRUE, err |-> NoErr]
    ELSE [deleted |-> FALSE, err |-> "leak"]

\* the delay the loop picks for the outcome of the invocation just finished
ResetTimeForSwapped(r) ==
    IF r.err # NoErr THEN timeBetweenDeletions
    ELSE IF r.deleted THEN timeBetweenErrors
    ELSE timeBetweenNoDeletions

ResetTimeFor(r) ==
    IF r.err # NoErr THEN timeBetweenErrors
    ELSE IF r.deleted THEN timeBetweenDeletions
    ELSE timeBetweenNoDeletions

(***************************************************************************)
(* Initial states.                                                         *)
(***************************************************************************)
CleanIface == [ipv4 |-> 1, ipv6 |-> 0]

DirtyIfaces ==
    {[ipv4 |-> a, ipv6 |-> b] : a \in 1..MaxIPv4, b \in 0..MaxIPv6}
        \ {CleanIface}

\* the address tables in which at most MaxDirty of the excess interfaces carry
\* extra addresses
InitialAddresses ==
    LET dirtySets == {D \in SUBSET (1..MaxExcess) : Cardinality(D) <= MaxDirty}
    IN  UNION {[D -> DirtyIfaces] : D \in dirtySets}

CleanAddresses == {<<>>}

InitReclaim(its, addrs) ==
    /\ branch_enis = AllENIs
    /\ branch_eni_attachments = {}
    /\ cloud = AllENIs
    /\ addresses \in addrs
    /\ externallyDeleted = {}
    /\ items = its
    /\ pc = [s \in Subnets |-> IF s \in its THEN "call" ELSE "idle"]
    /\ tx = [s \in Subnets |-> "none"]
    /\ branchENI = [s \in Subnets |-> NoENI]
    /\ deleteResp = [s \in Subnets |-> "none"]
    /\ ret = [s \in Subnets |-> NoRet]
    /\ resetTime = [s \in Subnets |-> 0]
    /\ elapsed = [s \in Subnets |-> 0]
    /\ loopErr = [s \in Subnets |-> NoErr]
    /\ cancelled = FALSE
    /\ cloudDeleteLog = <<>>
    /\ apc = "idle"
    /\ aTarget = NoENI



\* what the loop does with the error waitFor returned: return it, or go round
LoopAfterWait(waitErr) ==
    [return |-> waitErr # NoErr, err |-> waitErr]

(***************************************************************************)
(* doDeleteExcessBranches, one action per external call, driven by         *)
(* deleteExccessBranchesLoop.                                              *)
(***************************************************************************)
\* a return after which the loop does not wait
ReturnSkipsWait(s, r) ==
    /\ ret' = [ret EXCEPT ![s] = r]
    /\ tx' = [tx EXCEPT ![s] = IF @ = "open" THEN "rolledback" ELSE @]
    /\ resetTime' = [resetTime EXCEPT ![s] = ResetTimeFor(r)]
    /\ elapsed' = [elapsed EXCEPT ![s] = 0]
    /\ pc' = [pc EXCEPT ![s] = "call"]

\* a return that leaves the transaction as it is
ReturnNoRollback(s, r) ==
    /\ ret' = [ret EXCEPT ![s] = r]
    /\ tx' = tx
    /\ resetTime' = [resetTime EXCEPT ![s] = ResetTimeFor(r)]
    /\ elapsed' = [elapsed EXCEPT ![s] = 0]
    /\ pc' = [pc EXCEPT ![s] = "wait"]

\* return (d, e) from doDeleteExcessBranches: the deferred tx.Rollback(), then
\* the loop's choice of the delay and the start of waitFor
Return(s, r) ==
    /\ ret' = [ret EXCEPT ![s] = r]
    /\ tx' = [tx EXCEPT ![s] = IF @ = "open" THEN "rolledback" ELSE @]
    /\ resetTime' = [resetTime EXCEPT ![s] = ResetTimeFor(r)]
    /\ elapsed' = [elapsed EXCEPT ![s] = 0]
    /\ pc' = [pc EXCEPT ![s] = "wait"]

Fail(s, e) == Return(s, [deleted |-> FALSE, err |-> e])

\* the loop invokes the work function: locals are fresh, GetSession succeeds
GetSessionOK(s) ==
    /\ pc[s] = "call" /\ ~cancelled
    /\ pc' = [pc EXCEPT ![s] = "begin"]
    /\ tx' = [tx EXCEPT ![s] = "none"]
    /\ branchENI' = [branchENI EXCEPT ![s] = NoENI]
    /\ deleteResp' = [deleteResp EXCEPT ![s] = "none"]
    /\ UNCHANGED <<gcVars, listVars>>
    /\ UNCHANGED <<branch_enis, branch_eni_attachments, cloud, addresses, externallyDeleted,
                   items, ret, resetTime, elapsed, loopErr, cancelled,
                   cloudDeleteLog, apc, aTarget>>

\* GetSessionFromAccountAndRegion fails: the invocation returns before it has
\* a transaction, and the loop chooses the delay and waits
GetSessionErr(s) ==
    /\ pc[s] = "call"
    /\ ret' = [ret EXCEPT ![s] = [deleted |-> FALSE, err |-> "session"]]
    /\ tx' = [tx EXCEPT ![s] = "none"]
    /\ resetTime' = [resetTime EXCEPT ![s] =
                         ResetTimeFor([deleted |-> FALSE, err |-> "session"])]
    /\ elapsed' = [elapsed EXCEPT ![s] = 0]
    /\ pc' = [pc EXCEPT ![s] = "wait"]
    /\ branchENI' = [branchENI EXCEPT ![s] = NoENI]
    /\ deleteResp' = [deleteResp EXCEPT ![s] = "none"]
    /\ UNCHANGED <<gcVars, listVars>>
    /\ UNCHANGED <<branch_enis, branch_eni_attachments, cloud, addresses, externallyDeleted,
                   items, loopErr, cancelled, cloudDeleteLog, apc, aTarget>>

BeginTxOK(s) ==
    /\ pc[s] = "begin" /\ ~cancelled
    /\ tx' = [tx EXCEPT ![s] = "open"]
    /\ pc' = [pc EXCEPT ![s] = "delete"]
    /\ UNCHANGED <<gcVars, listVars>>
    /\ UNCHANGED <<branch_enis, branch_eni_attachments, cloud, addresses, externallyDeleted,
                   items, branchENI, deleteResp, ret, resetTime, elapsed,
                   loopErr, cancelled, cloudDeleteLog, apc,
                   aTarget>>

BeginTxErr(s) ==
    /\ pc[s] = "begin"
    /\ Fail(s, "begin")
    /\ UNCHANGED <<gcVars, listVars>>
    /\ UNCHANGED <<branch_enis, branch_eni_attachments, cloud, addresses, externallyDeleted,
                   items, branchENI, deleteResp, loopErr, cancelled, cloudDeleteLog, apc, aTarget>>

\* rows some other open reclaim transaction has deleted and not yet committed
LockedByOthers(s) ==
    {branchENI[t] : t \in {u \in Subnets : u # s /\ tx[u] = "open"}} \ {NoENI}

\* the DELETE ... RETURNING finds a row: it is deleted inside the transaction
DeleteRow(s) ==
    /\ pc[s] = "delete" /\ ~cancelled
    /\ LET c == SelectExcessBranch(branch_enis, branch_eni_attachments, s)
       IN  /\ c # NoENI
           /\ c \notin LockedByOthers(s)
           /\ branchENI' = [branchENI EXCEPT ![s] = c]
    /\ pc' = [pc EXCEPT ![s] = "describe"]
    /\ UNCHANGED <<gcVars, listVars>>
    /\ UNCHANGED <<branch_enis, branch_eni_attachments, cloud, addresses, externallyDeleted,
                   items, tx, deleteResp, ret, resetTime, elapsed,
                   loopErr, cancelled, cloudDeleteLog, apc, aTarget>>

\* the DELETE ... RETURNING finds nothing: sql.ErrNoRows, (false, nil)
DeleteNoRows(s) ==
    /\ pc[s] = "delete" /\ ~cancelled
    /\ SelectExcessBranch(branch_enis, branch_eni_attachments, s) = NoENI
    /\ Return(s, NoRet)
    /\ UNCHANGED <<gcVars, listVars>>
    /\ UNCHANGED <<branch_enis, branch_eni_attachments, cloud, addresses, externallyDeleted,
                   items, branchENI, deleteResp, loopErr, cancelled,
                   cloudDeleteLog, apc, aTarget>>

\* the statement or the scan fails with another error
DeleteScanErr(s) ==
    /\ pc[s] = "delete"
    /\ Fail(s, "scan")
    /\ UNCHANGED <<gcVars, listVars>>
    /\ UNCHANGED <<branch_enis, branch_eni_attachments, cloud, addresses, externallyDeleted,
                   items, branchENI, deleteResp, loopErr, cancelled, cloudDeleteLog, apc, aTarget>>

\* the descriptor of an interface that exists
Describe(e) == IF e \in DOMAIN addresses THEN addresses[e] ELSE CleanIface

\* GetNetworkInterfaceByID answers, then the two address checks
DescribeOK(s) ==
    /\ pc[s] = "describe" /\ ~cancelled
    /\ branchENI[s] \in cloud
    /\ LET e == CheckAddresses(Describe(branchENI[s]))
       IN  IF e # NoErr
           THEN Fail(s, e)
           ELSE /\ pc' = [pc EXCEPT ![s] = "commit"]
                /\ UNCHANGED <<tx, ret, resetTime, elapsed>>
    /\ UNCHANGED <<gcVars, listVars>>
    /\ UNCHANGED <<branch_enis, branch_eni_attachments, cloud, addresses, externallyDeleted,
                   items, branchENI, deleteResp, loopErr, cancelled, cloudDeleteLog, apc, aTarget>>

\* a describe whose not-found answer counts as a success
DescribeErrNotFoundBenign(s) ==
    /\ pc[s] = "describe"
    /\ IF branchENI[s] \in cloud
       THEN Fail(s, "describe")
       ELSE /\ pc' = [pc EXCEPT ![s] = "commit"]
            /\ UNCHANGED <<tx, ret, resetTime, elapsed>>
    /\ UNCHANGED <<gcVars, listVars>>
    /\ UNCHANGED <<branch_enis, branch_eni_attachments, cloud, addresses, externallyDeleted,
                   items, branchENI, deleteResp, loopErr, cancelled, cloudDeleteLog, apc, aTarget>>

\* GetNetworkInterfaceByID fails: not found, or any other error
DescribeErr(s) ==
    /\ pc[s] = "describe"
    /\ Fail(s, IF branchENI[s] \in cloud THEN "describe" ELSE "describe-notfound")
    /\ UNCHANGED <<gcVars, listVars>>
    /\ UNCHANGED <<branch_enis, branch_eni_attachments, cloud, addresses, externallyDeleted,
                   items, branchENI, deleteResp, loopErr, cancelled, cloudDeleteLog, apc, aTarget>>

\* tx.Commit() succeeds: the row leaves the ledger
CommitOK(s) ==
    /\ pc[s] = "commit" /\ ~cancelled
    /\ branch_enis' = branch_enis \ {branchENI[s]}
    /\ tx' = [tx EXCEPT ![s] = "committed"]
    /\ pc' = [pc EXCEPT ![s] = "cloudDelete"]
    /\ UNCHANGED <<gcVars, listVars>>
    /\ UNCHANGED <<branch_eni_attachments, cloud, addresses, externallyDeleted, items,
                   branchENI, deleteResp, ret, resetTime, elapsed,
                   loopErr, cancelled, cloudDeleteLog, apc,
                   aTarget>>

\* a failed tx.Commit() that does not end the cycle
CommitErrIgnored(s) ==
    /\ pc[s] = "commit"
    /\ pc' = [pc EXCEPT ![s] = "cloudDelete"]
    /\ UNCHANGED <<gcVars, listVars>>
    /\ UNCHANGED <<branch_enis, branch_eni_attachments, cloud, addresses, externallyDeleted,
                   items, tx, branchENI, deleteResp, ret, resetTime, elapsed,
                   loopErr, cancelled, cloudDeleteLog, apc, aTarget>>

\* tx.Commit() fails
CommitErr(s) ==
    /\ pc[s] = "commit"
    /\ Fail(s, "commit")
    /\ UNCHANGED <<gcVars, listVars>>
    /\ UNCHANGED <<branch_enis, branch_eni_attachments, cloud, addresses, externallyDeleted,
                   items, branchENI, deleteResp, loopErr, cancelled, cloudDeleteLog, apc, aTarget>>

\* DeleteNetworkInterface answers resp; the cycle returns DeleteOutcome(resp)
CloudDeleteAnswer(s, resp) ==
    /\ deleteResp' = [deleteResp EXCEPT ![s] = resp]
    /\ cloudDeleteLog' = Append(cloudDeleteLog, branchENI[s])
    /\ Return(s, DeleteOutcome(resp))
    /\ UNCHANGED <<gcVars, listVars>>
    /\ UNCHANGED <<branch_enis, branch_eni_attachments, addresses, externallyDeleted, items,
                   branchENI, loopErr, cancelled, apc,
                   aTarget>>

CloudDeleteOK(s) ==
    /\ pc[s] = "cloudDelete" /\ ~cancelled
    /\ branchENI[s] \in cloud
    /\ cloud' = cloud \ {branchENI[s]}
    /\ CloudDeleteAnswer(s, "ok")

CloudDeleteNotFound(s) ==
    /\ pc[s] = "cloudDelete" /\ ~cancelled
    /\ branchENI[s] \notin cloud
    /\ cloud' = cloud
    /\ CloudDeleteAnswer(s, "notfound")

CloudDeleteErr(s) ==
    /\ pc[s] = "cloudDelete"
    /\ cloud' = cloud
    /\ CloudDeleteAnswer(s, "other")

(***************************************************************************)
(* waitFor(ctx, resetTime) and the end of the loop.                        *)
(***************************************************************************)
\* one second passes for every loop that is waiting
Tick ==
    /\ \E s \in Subnets : pc[s] = "wait" /\ elapsed[s] < resetTime[s]
    /\ elapsed' = [s \in Subnets |->
                      IF pc[s] = "wait" /\ elapsed[s] < resetTime[s]
                      THEN elapsed[s] + 1 ELSE elapsed[s]]
    /\ UNCHANGED <<gcVars, listVars>>
    /\ UNCHANGED <<branch_enis, branch_eni_attachments, cloud, addresses, externallyDeleted,
                   items, pc, tx, branchENI, deleteResp, ret, resetTime,
                   loopErr, cancelled, cloudDeleteLog, apc,
                   aTarget>>

\* the whole delay of one waiting loop passes
Sleep(s) ==
    /\ pc[s] = "wait" /\ elapsed[s] < resetTime[s]
    /\ elapsed' = [elapsed EXCEPT ![s] = resetTime[s]]
    /\ UNCHANGED <<gcVars, listVars>>
    /\ UNCHANGED <<branch_enis, branch_eni_attachments, cloud, addresses, externallyDeleted,
                   items, pc, tx, branchENI, deleteResp, ret, resetTime,
                   loopErr, cancelled, cloudDeleteLog, apc,
                   aTarget>>

\* the timer has fired: waitFor returns nil and the loop goes round
WaitForTimer(s) ==
    /\ pc[s] = "wait" /\ ~cancelled
    /\ elapsed[s] >= resetTime[s]
    /\ pc' = [pc EXCEPT ![s] = IF LoopAfterWait(NoErr).return
                                THEN "stopped" ELSE "call"]
    /\ UNCHANGED <<gcVars, listVars>>
    /\ UNCHANGED <<branch_enis, branch_eni_attachments, cloud, addresses, externallyDeleted,
                   items, tx, branchENI, deleteResp, ret, resetTime,
                   elapsed, loopErr, cancelled, cloudDeleteLog,
                   apc, aTarget>>

\* the context is done: waitFor returns ctx.Err() and the loop returns it
WaitForCancelled(s) ==
    /\ pc[s] = "wait" /\ cancelled
    /\ LET r == LoopAfterWait("context canceled")
       IN  /\ pc' = [pc EXCEPT ![s] = IF r.return THEN "stopped" ELSE "call"]
           /\ loopErr' = [loopErr EXCEPT ![s] = r.err]
    /\ UNCHANGED <<gcVars, listVars>>
    /\ UNCHANGED <<branch_enis, branch_eni_attachments, cloud, addresses, externallyDeleted,
                   items, tx, branchENI, deleteResp, ret, resetTime,
                   elapsed, cancelled, cloudDeleteLog, apc,
                   aTarget>>

\* the parent context is cancelled
Cancel ==
    /\ ~cancelled
    /\ cancelled' = TRUE
    /\ UNCHANGED <<gcVars, listVars>>
    /\ UNCHANGED <<branch_enis, branch_eni_attachments, cloud, addresses, externallyDeleted,
                   items, pc, tx, branchENI, deleteResp, ret, resetTime,
                   elapsed, loopErr, cloudDeleteLog, apc,
                   aTarget>>

(***************************************************************************)
(* The environment: a concurrent attacher, and the cloud changing behind   *)
(* the reclaimer's back.                                                   *)
(***************************************************************************)
\* rows an attacher may claim in this model
Attachable == 1..(MaxExcess + MaxWarmAttach)

\* the attacher's transaction inserts an attachment row for a branch ENI that
\* is in the (committed) ledger and has no attachment row
AttachInsert(e) ==
    /\ apc = "idle"
    /\ e \in branch_enis /\ e \notin branch_eni_attachments
    /\ apc' = "inserted"
    /\ aTarget' = e
    /\ UNCHANGED <<gcVars, listVars>>
    /\ UNCHANGED <<branch_enis, branch_eni_attachments, cloud, addresses, externallyDeleted,
                   items, pc, tx, branchENI, deleteResp, ret, resetTime,
                   elapsed, loopErr, cancelled, cloudDeleteLog>>

AttachCommit ==
    /\ apc = "inserted"
    /\ branch_eni_attachments' = branch_eni_attachments \cup {aTarget}
    /\ apc' = "idle"
    /\ aTarget' = NoENI
    /\ UNCHANGED <<gcVars, listVars>>
    /\ UNCHANGED <<branch_enis, cloud, addresses, externallyDeleted, items, pc, tx,
                   branchENI, deleteResp, ret, resetTime, elapsed,
                   loopErr, cancelled, cloudDeleteLog>>

\* somebody else removes an interface from the cloud
ExternalCloudDelete(e) ==
    /\ Cardinality(externallyDeleted) < MaxExternal
    /\ e \in cloud
    /\ cloud' = cloud \ {e}
    /\ externallyDeleted' = externallyDeleted \cup {e}
    /\ UNCHANGED <<gcVars, listVars>>
    /\ UNCHANGED <<branch_enis, branch_eni_attachments, addresses, items, pc, tx,
                   branchENI, deleteResp, ret, resetTime, elapsed,
                   loopErr, cancelled, cloudDeleteLog, apc,
                   aTarget>>

(***************************************************************************)
(* GC3: one cycle is one call of GC, one action per external call.         *)
(***************************************************************************)
\* names a task entry of a source-of-truth document carries in this model
TaskNames == {"", "A", "B"}
\* task IDs the allocation service may hold an assignment for
AssignedTasks == {"A", "C", "D"}
\* tasks of one executor, pods of one pod list
MaxTasks == 2
\* GC cycles of one behaviour
MaxCycles == 2

\* the task entries of a state document: a name and a state, B being
\* either running or in a terminal state
TaskEntries ==
    {[name |-> n, state |-> "TASK_RUNNING"] : n \in TaskNames}
        \cup {[name |-> "B", state |-> "TASK_FINISHED"]}

\* the pods of a pod list: a key and a phase, B being either running or over
PodEntries ==
    {[key |-> n, phase |-> "Running"] : n \in TaskNames \ {""}}
        \cup {[key |-> "B", phase |-> "Succeeded"]}

TaskLists(n) == UNION {[1..k -> TaskEntries] : k \in 0..n}

\* a body that does not decode, and the body that decodes to doc
Malformed == [decodes |-> FALSE, doc |-> <<>>]
Decoded(d) == [decodes |-> TRUE, doc |-> d]

\* the legacy scheduler's state documents: a sequence of frameworks, each a
\* sequence of executors, each a sequence of tasks
MesosBodies ==
    {Malformed, Decoded(<<>>)}
        \cup {Decoded(<< <<t>> >>) : t \in TaskLists(MaxTasks)}
        \cup {Decoded(<< <<t, u>> >>) : t, u \in TaskLists(1)}
        \cup {Decoded(<< <<t>>, <<u>> >>) : t, u \in TaskLists(1)}

\* the orchestrator's pod lists: a sequence of pods
PodBodies ==
    {Malformed}
        \cup {Decoded(t) : t \in UNION {[1..k -> PodEntries] : k \in 0..MaxTasks}}

ParseError == [err |-> TRUE, tasks |-> <<>>]

\* the innermost loop of parseMesosTasksBody, appending to tasks
RECURSIVE ExecutorTasksSkipEmpty(_, _)
ExecutorTasksSkipEmpty(executorTasks, tasks) ==
    IF executorTasks = <<>> THEN [err |-> FALSE, tasks |-> tasks]
    ELSE IF Head(executorTasks).name = ""
         THEN ExecutorTasksSkipEmpty(Tail(executorTasks), tasks)
         ELSE ExecutorTasksSkipEmpty(Tail(executorTasks),
                                     Append(tasks, Head(executorTasks).name))

\* the same loop leaving out the tasks that are not running
RECURSIVE ExecutorTasksSkipTerminal(_, _)
ExecutorTasksSkipTerminal(executorTasks, tasks) ==
    IF executorTasks = <<>> THEN [err |-> FALSE, tasks |-> tasks]
    ELSE IF Head(executorTasks).name = "" THEN ParseError
    ELSE IF Head(executorTasks).state # "TASK_RUNNING"
         THEN ExecutorTasksSkipTerminal(Tail(executorTasks), tasks)
         ELSE ExecutorTasksSkipTerminal(Tail(executorTasks),
                                        Append(tasks, Head(executorTasks).name))

RECURSIVE ExecutorTasks(_, _)
ExecutorTasks(executorTasks, tasks) ==
    IF executorTasks = <<>> THEN [err |-> FALSE, tasks |-> tasks]
    ELSE IF Head(executorTasks).name = "" THEN ParseError
    ELSE ExecutorTasks(Tail(executorTasks), Append(tasks, Head(executorTasks).name))

RECURSIVE FrameworkTasks(_, _)
FrameworkTasks(executors, tasks) ==
    IF executors = <<>> THEN [err |-> FALSE, tasks |-> tasks]
    ELSE LET r == ExecutorTasks(Head(executors), tasks)
         IN  IF r.err THEN r ELSE FrameworkTasks(Tail(executors), r.tasks)

RECURSIVE StateTasks(_, _)
StateTasks(frameworks, tasks) ==
    IF frameworks = <<>> THEN [err |-> FALSE, tasks |-> tasks]
    ELSE LET r == FrameworkTasks(Head(frameworks), tasks)
         IN  IF r.err THEN r ELSE StateTasks(Tail(frameworks), r.tasks)

parseMesosTasksBody(b) ==
    IF ~b.decodes THEN ParseError ELSE StateTasks(b.doc, <<>>)

\* the task key of a pod
PodKey(pod) == pod.key

parseKubernetesTasksBody(b) ==
    IF ~b.decodes THEN ParseError
    ELSE [err |-> FALSE, tasks |-> [i \in DOMAIN b.doc |-> PodKey(b.doc[i])]]

\* the assignments a soft GCV3 reports: those of no task of the running list
StaleAssignments(recorded, running) == recorded \ Range(running)

\* the orders in which a set can be listed
Orderings(S) ==
    {sq \in [1..Cardinality(S) -> S] : \A i, j \in DOMAIN sq : i # j => sq[i] # sq[j]}

\* result.ErrorOrNil()
ErrorOrNilTypedNil(errs) == "aggregate"

ErrorOrNil(errs) == IF errs = <<>> THEN NoErr ELSE "aggregate"

\* where the range loop goes after an error of one item: continue
AfterItemErrorBreak(i, n) == n + 1

AfterItemErrorSameItem(i, n) == i

AfterItemError(i, n) == i + 1

Call(op, task) == [op |-> op, task |-> task]

NoReq == [identity |-> "", running |-> <<>>, soft |-> FALSE]

\* the variables of one cycle, before it starts
FreshCycle ==
    /\ gpc = "start"
    /\ body = Malformed
    /\ req = NoReq
    /\ removed = <<>>
    /\ idx = 0
    /\ step = "none"
    /\ result = <<>>
    /\ gcErr = NoErr
    /\ calls = <<>>
    /\ faults = {}

GCIdle ==
    /\ FreshCycle
    /\ sourceOfTruth = "mesos"
    /\ assignments = {}
    /\ tornDown = {}
    /\ cycles = 0

InitGC ==
    /\ FreshCycle
    /\ sourceOfTruth \in {"kubernetes", "mesos", "marathon"}
    /\ assignments \in SUBSET AssignedTasks
    /\ tornDown = {}
    /\ cycles = 1

GCReturn(e) ==
    /\ gpc' = "done"
    /\ gcErr' = e

\* the Soft field of the GCRequestV3
SoftOff == FALSE

Soft == TRUE

GetIdentityOK ==
    /\ gpc = "start"
    /\ calls' = Append(calls, Call("GetIdentity", ""))
    /\ req' = [identity |-> "node", running |-> <<>>, soft |-> Soft]
    /\ gpc' = "tasks"
    /\ UNCHANGED <<reclaimVars, listVars>>
    /\ UNCHANGED <<sourceOfTruth, body, removed, idx, step, result, gcErr,
                   faults, assignments, tornDown, cycles>>

\* a failed GetIdentity that does not end the cycle
GetIdentityErrIgnored ==
    /\ gpc = "start"
    /\ calls' = Append(calls, Call("GetIdentity", ""))
    /\ gpc' = "tasks"
    /\ UNCHANGED <<reclaimVars, listVars>>
    /\ UNCHANGED <<sourceOfTruth, body, req, removed, idx, step, result, gcErr,
                   faults, assignments, tornDown, cycles>>

\* instanceIdentityProvider.GetIdentity fails
GetIdentityErr ==
    /\ gpc = "start"
    /\ calls' = Append(calls, Call("GetIdentity", ""))
    /\ GCReturn("identity")
    /\ UNCHANGED <<reclaimVars, listVars>>
    /\ UNCHANGED <<sourceOfTruth, body, req, removed, idx, step, result,
                   faults, assignments, tornDown, cycles>>

\* the default branch of the switch on args.SourceOfTruth
UnknownSourceOfTruth ==
    /\ gpc = "tasks"
    /\ sourceOfTruth \notin {"kubernetes", "mesos"}
    /\ GCReturn("tasks")
    /\ UNCHANGED <<reclaimVars, listVars>>
    /\ UNCHANGED <<sourceOfTruth, body, req, removed, idx, step, result,
                   calls, faults, assignments, tornDown, cycles>>

\* shared.Get fails in kubernetesTasks or mesosTasks
FetchErr ==
    /\ gpc = "tasks"
    /\ sourceOfTruth \in {"kubernetes", "mesos"}
    /\ calls' = Append(calls, Call("Get", ""))
    /\ GCReturn("tasks")
    /\ UNCHANGED <<reclaimVars, listVars>>
    /\ UNCHANGED <<sourceOfTruth, body, req, removed, idx, step, result,
                   faults, assignments, tornDown, cycles>>

\* req.RunningTaskIDs = tasks
WithRunningTasksUnset(request, tasks) == request

WithRunningTasks(request, tasks) == [request EXCEPT !.running = tasks]

\* the body b is fetched and parsed into r
TasksFetched(b, r) ==
    /\ calls' = Append(calls, Call("Get", ""))
    /\ body' = b
    /\ IF r.err
       THEN GCReturn("tasks") /\ req' = req
       ELSE /\ req' = WithRunningTasks(req, r.tasks)
            /\ gpc' = "gcv3"
            /\ gcErr' = gcErr
    /\ UNCHANGED <<reclaimVars, listVars>>
    /\ UNCHANGED <<sourceOfTruth, removed, idx, step, result, faults,
                   assignments, tornDown, cycles>>

mesosTasks(b) ==
    /\ gpc = "tasks"
    /\ sourceOfTruth = "mesos"
    /\ TasksFetched(b, parseMesosTasksBody(b))

kubernetesTasks(b) ==
    /\ gpc = "tasks"
    /\ sourceOfTruth = "kubernetes"
    /\ TasksFetched(b, parseKubernetesTasksBody(b))

\* what the remote service records after a GCV3 call: a soft call is advisory
RecordedAfterGCV3(recorded, request) ==
    IF request.soft THEN recorded
    ELSE recorded \ StaleAssignments(recorded, request.running)

\* client.GCV3 answers with the stale assignments, in some order
GCV3OK(order) ==
    /\ gpc = "gcv3"
    /\ order \in Orderings(StaleAssignments(assignments, req.running))
    /\ calls' = Append(calls, Call("GCV3", ""))
    /\ removed' = order
    /\ idx' = 1
    /\ step' = "get"
    /\ gpc' = "items"
    /\ assignments' = RecordedAfterGCV3(assignments, req)
    /\ UNCHANGED <<reclaimVars, listVars>>
    /\ UNCHANGED <<sourceOfTruth, body, req, result, gcErr, faults,
                   tornDown, cycles>>

GCV3Err ==
    /\ gpc = "gcv3"
    /\ calls' = Append(calls, Call("GCV3", ""))
    /\ GCReturn("gcv3")
    /\ UNCHANGED <<reclaimVars, listVars>>
    /\ UNCHANGED <<sourceOfTruth, body, req, removed, idx, step, result,
                   faults, assignments, tornDown, cycles>>

\* the loop body is at item removed[idx], about to make the call st
AtItem(st) == gpc = "items" /\ idx <= Len(removed) /\ step = st

\* a failed call of the loop body whose error is not appended
ItemErrorNotAppended(op) ==
    /\ calls' = Append(calls, Call(op, removed[idx]))
    /\ faults' = faults \cup {Call(op, removed[idx])}
    /\ result' = result
    /\ idx' = AfterItemError(idx, Len(removed))
    /\ step' = "get"
    /\ UNCHANGED <<reclaimVars, listVars>>
    /\ UNCHANGED <<gpc, sourceOfTruth, body, req, removed, gcErr, assignments,
                   tornDown, cycles>>

\* a call of the loop body fails: the error is appended and the loop continues
ItemError(op) ==
    /\ calls' = Append(calls, Call(op, removed[idx]))
    /\ faults' = faults \cup {Call(op, removed[idx])}
    /\ result' = Append(result, removed[idx])
    /\ idx' = AfterItemError(idx, Len(removed))
    /\ step' = "get"
    /\ UNCHANGED <<reclaimVars, listVars>>
    /\ UNCHANGED <<gpc, sourceOfTruth, body, req, removed, gcErr, assignments,
                   tornDown, cycles>>

GetAssignmentOK ==
    /\ AtItem("get")
    /\ calls' = Append(calls, Call("GetAssignment", removed[idx]))
    /\ step' = "teardown"
    /\ UNCHANGED <<reclaimVars, listVars>>
    /\ UNCHANGED <<gpc, sourceOfTruth, body, req, removed, idx, result, gcErr,
                   faults, assignments, tornDown, cycles>>

GetAssignmentErr == AtItem("get") /\ ItemError("GetAssignment")

TeardownNetworkOK ==
    /\ AtItem("teardown")
    /\ calls' = Append(calls, Call("TeardownNetwork", removed[idx]))
    /\ tornDown' = tornDown \cup {removed[idx]}
    /\ step' = "unassign"
    /\ UNCHANGED <<reclaimVars, listVars>>
    /\ UNCHANGED <<gpc, sourceOfTruth, body, req, removed, idx, result, gcErr,
                   faults, assignments, cycles>>

TeardownNetworkErr == AtItem("teardown") /\ ItemError("TeardownNetwork")

UnassignIPOK ==
    /\ AtItem("unassign")
    /\ calls' = Append(calls, Call("UnassignIP", removed[idx]))
    /\ assignments' = assignments \ {removed[idx]}
    /\ idx' = idx + 1
    /\ step' = "get"
    /\ UNCHANGED <<reclaimVars, listVars>>
    /\ UNCHANGED <<gpc, sourceOfTruth, body, req, removed, result, gcErr,
                   faults, tornDown, cycles>>

UnassignIPErr == AtItem("unassign") /\ ItemError("UnassignIP")

\* the range loop is over: GC returns result.ErrorOrNil()
GCFinish ==
    /\ gpc = "items" /\ idx > Len(removed)
    /\ GCReturn(ErrorOrNil(result))
    /\ UNCHANGED <<reclaimVars, listVars>>
    /\ UNCHANGED <<sourceOfTruth, body, req, removed, idx, step, result,
                   calls, faults, assignments, tornDown, cycles>>

\* GC is called again: nothing of the last cycle is kept; the count of the
\* cycles stops at MaxCycles
GCAgain ==
    /\ gpc = "done"
    /\ gpc' = "start"
    /\ body' = Malformed
    /\ req' = NoReq
    /\ removed' = <<>>
    /\ idx' = 0
    /\ step' = "none"
    /\ result' = <<>>
    /\ gcErr' = NoErr
    /\ calls' = <<>>
    /\ faults' = {}
    /\ cycles' = Min(cycles + 1, MaxCycles)
    /\ UNCHANGED <<reclaimVars, listVars>>
    /\ UNCHANGED <<sourceOfTruth, assignments, tornDown>>

(***************************************************************************)
(* getSubnets, the lister of the work items, and the start of the loops.   *)
(***************************************************************************)
\* the results the query on subnets can have: every subnet at most once
SubnetTables == UNION {Orderings(S) : S \in SUBSET Subnets}

\* return nil, err and return ret, nil
NilList(e) == [isNil |-> TRUE, list |-> <<>>, err |-> e]
List(l) == [isNil |-> FALSE, list |-> l, err |-> NoErr]
NoList == NilList(NoErr)

\* getSubnets is not running
ListIdle ==
    /\ lpc = "idle"
    /\ ltx = "none"
    /\ subnetRows = <<>>
    /\ cursor = 0
    /\ lret = <<>>
    /\ rowsErr = FALSE
    /\ lout = NoList

InitList ==
    /\ lpc = "start"
    /\ ltx = "none"
    /\ subnetRows \in SubnetTables
    /\ cursor = 0
    /\ lret = <<>>
    /\ rowsErr = FALSE
    /\ lout = NoList

\* getSubnets returns out: the deferred tx.Rollback() runs
ListReturn(out) ==
    /\ lout' = out
    /\ ltx' = IF ltx = "open" THEN "rolledback" ELSE ltx
    /\ lpc' = "done"

ListBeginTxOK ==
    /\ lpc = "start" /\ ~cancelled
    /\ ltx' = "open"
    /\ lpc' = "query"
    /\ UNCHANGED <<reclaimVars, gcVars>>
    /\ UNCHANGED <<subnetRows, cursor, lret, rowsErr, lout>>

ListBeginTxErr ==
    /\ lpc = "start"
    /\ ListReturn(NilList("begin"))
    /\ UNCHANGED <<reclaimVars, gcVars>>
    /\ UNCHANGED <<subnetRows, cursor, lret, rowsErr>>

ListQueryOK ==
    /\ lpc = "query" /\ ~cancelled
    /\ lpc' = "rows"
    /\ UNCHANGED <<reclaimVars, gcVars>>
    /\ UNCHANGED <<ltx, subnetRows, cursor, lret, rowsErr, lout>>

ListQueryErr ==
    /\ lpc = "query"
    /\ ListReturn(NilList("query"))
    /\ UNCHANGED <<reclaimVars, gcVars>>
    /\ UNCHANGED <<subnetRows, cursor, lret, rowsErr>>

\* rows.Next() is true and rows.Scan succeeds: the row is appended
RowsScanOK ==
    /\ lpc = "rows" /\ ~cancelled
    /\ cursor < Len(subnetRows)
    /\ cursor' = cursor + 1
    /\ lret' = Append(lret, subnetRows[cursor + 1])
    /\ UNCHANGED <<reclaimVars, gcVars>>
    /\ UNCHANGED <<lpc, ltx, subnetRows, rowsErr, lout>>

\* rows.Next() is true and rows.Scan fails
RowsScanErr ==
    /\ lpc = "rows"
    /\ cursor < Len(subnetRows)
    /\ cursor' = cursor + 1
    /\ ListReturn(NilList("scan"))
    /\ UNCHANGED <<reclaimVars, gcVars>>
    /\ UNCHANGED <<subnetRows, lret, rowsErr>>

\* rows.Next() is false because the result is exhausted
RowsNextEnd ==
    /\ lpc = "rows" /\ ~cancelled
    /\ cursor = Len(subnetRows)
    /\ lpc' = "commit"
    /\ UNCHANGED <<reclaimVars, gcVars>>
    /\ UNCHANGED <<ltx, subnetRows, cursor, lret, rowsErr, lout>>

\* rows.Next() is false because of an error (the fetch of a row or of the end
\* of the result failed, or the context is done); the loop ends the same way,
\* rows.Err() is not consulted
RowsNextErr ==
    /\ lpc = "rows"
    /\ rowsErr' = TRUE
    /\ lpc' = "commit"
    /\ UNCHANGED <<reclaimVars, gcVars>>
    /\ UNCHANGED <<ltx, subnetRows, cursor, lret, lout>>

ListCommitOK ==
    /\ lpc = "commit" /\ ~cancelled
    /\ lout' = List(lret)
    /\ ltx' = "committed"
    /\ lpc' = "done"
    /\ UNCHANGED <<reclaimVars, gcVars>>
    /\ UNCHANGED <<subnetRows, cursor, lret, rowsErr>>

ListCommitErr ==
    /\ lpc = "commit"
    /\ ListReturn(NilList("commit"))
    /\ UNCHANGED <<reclaimVars, gcVars>>
    /\ UNCHANGED <<subnetRows, cursor, lret, rowsErr>>

\* the scheduler starts one loop per listed item
StartLoops ==
    /\ lpc = "done" /\ lout.err = NoErr
    /\ lpc' = "started"
    /\ items' = Range(lout.list)
    /\ pc' = [s \in Subnets |-> IF s \in Range(lout.list) THEN "call" ELSE "idle"]
    /\ UNCHANGED gcVars
    /\ UNCHANGED <<ltx, subnetRows, cursor, lret, rowsErr, lout>>
    /\ UNCHANGED <<branch_enis, branch_eni_attachments, cloud, addresses,
                   externallyDeleted, tx, branchENI, deleteResp, ret, resetTime,
                   elapsed, loopErr, cancelled, cloudDeleteLog, apc, aTarget>>

\* the listing failed: no loop is started
AbortScheduling ==
    /\ lpc = "done" /\ lout.err # NoErr
    /\ lpc' = "aborted"
    /\ UNCHANGED <<reclaimVars, gcVars>>
    /\ UNCHANGED <<ltx, subnetRows, cursor, lret, rowsErr, lout>>

getSubnets ==
    \/ ListBeginTxOK \/ ListBeginTxErr
    \/ ListQueryOK \/ ListQueryErr
    \/ RowsScanOK \/ RowsScanErr \/ RowsNextEnd \/ RowsNextErr
    \/ ListCommitOK \/ ListCommitErr

(***************************************************************************)
(* Specifications.                                                         *)
(***************************************************************************)
Cycle(s) ==
    \/ GetSessionOK(s) \/ GetSessionErr(s)
    \/ BeginTxOK(s) \/ BeginTxErr(s)
    \/ DeleteRow(s) \/ DeleteNoRows(s) \/ DeleteScanErr(s)
    \/ DescribeOK(s) \/ DescribeErr(s)
    \/ CommitOK(s) \/ CommitErr(s)
    \/ CloudDeleteOK(s) \/ CloudDeleteNotFound(s) \/ CloudDeleteErr(s)

\* interfaces somebody else may remove from the cloud in this model
ExternallyDeletable == (MaxExcess - MaxExternal + 1)..MaxExcess

\* the reclaimer loops and the cloud
Next ==
    \/ \E s \in Subnets : Cycle(s)
    \/ \E s \in Subnets : Sleep(s)
    \/ \E s \in Subnets : WaitForTimer(s)
    \/ \E e \in ExternallyDeletable : ExternalCloudDelete(e)

Init == InitReclaim(Subnets, InitialAddresses) /\ GCIdle /\ ListIdle

Spec == Init /\ [][Next]_vars

\* one reclaimer loop next to a concurrent attacher
InitRace == InitReclaim({"subnet-a"}, CleanAddresses) /\ GCIdle /\ ListIdle

NextRace ==
    \/ \E s \in Subnets : Cycle(s)
    \/ \E s \in Subnets : Sleep(s)
    \/ \E s \in Subnets : WaitForTimer(s)
    \/ \E e \in Attachable : AttachInsert(e)
    \/ AttachCommit
    \/ \E e \in ExternallyDeletable : ExternalCloudDelete(e)

SpecRace == InitRace /\ [][NextRace]_vars

\* one reclaimer loop with the passage of time and cancellation
InitTimed == InitReclaim({"subnet-a"}, InitialAddresses) /\ GCIdle /\ ListIdle

NextTimed ==
    \/ \E s \in Subnets : Cycle(s)
    \/ Tick
    \/ \E s \in Subnets : WaitForTimer(s)
    \/ \E s \in Subnets : WaitForCancelled(s)
    \/ Cancel
    \/ \E e \in ExternallyDeletable : ExternalCloudDelete(e)

SpecTimed == InitTimed /\ [][NextTimed]_vars

\* a reclaimer loop that never stops
NextLive ==
    \/ \E s \in Subnets : Cycle(s)
    \/ \E s \in Subnets : Sleep(s)
    \/ \E s \in Subnets : WaitForTimer(s)
    \/ \E e \in ExternallyDeletable : ExternalCloudDelete(e)

\* the timer of waitFor runs and fires
TimerStep(s) == Sleep(s) \/ WaitForTimer(s)

\* the timer of waitFor fires
Fairness == \A s \in {"subnet-a"} : WF_vars(TimerStep(s))

InitLive == InitReclaim({"subnet-a"}, InitialAddresses) /\ GCIdle /\ ListIdle

SpecLive == InitLive /\ [][NextLive]_vars /\ Fairness

\* the same loop without the assumption on its timer
SpecSingle == InitLive /\ [][NextLive]_vars

\* the GC3 cycles of one node
ReclaimIdle == InitReclaim({}, CleanAddresses)

InitGCSpec == ReclaimIdle /\ InitGC /\ ListIdle

NextGC ==
    \/ GetIdentityOK
    \/ GetIdentityErr
    \/ UnknownSourceOfTruth
    \/ FetchErr
    \/ \E b \in MesosBodies : mesosTasks(b)
    \/ \E b \in PodBodies : kubernetesTasks(b)
    \/ \E o \in Orderings(AssignedTasks) \cup
                 UNION {Orderings(S) : S \in SUBSET AssignedTasks} : GCV3OK(o)
    \/ GCV3Err
    \/ GetAssignmentOK
    \/ GetAssignmentErr
    \/ TeardownNetworkOK
    \/ TeardownNetworkErr
    \/ UnassignIPOK
    \/ UnassignIPErr
    \/ GCFinish
    \/ GCAgain

SpecGC == InitGCSpec /\ [][NextGC]_vars

\* the GCV3 call answers
ResponseOK ==
    \E o \in UNION {Orderings(S) : S \in SUBSET AssignedTasks} : GCV3OK(o)

\* the documents of the repeated cycles: at most one task entry
OneTaskBodies == {Malformed} \cup {Decoded(<< <<t>> >>) : t \in TaskLists(1)}

OnePodBodies ==
    {Malformed} \cup {Decoded(t) : t \in UNION {[1..k -> PodEntries] : k \in 0..1}}

\* the running tasks are fetched and parsed
TasksOK ==
    \/ \E b \in OneTaskBodies : mesosTasks(b) /\ gpc' = "gcv3"
    \/ \E b \in OnePodBodies : kubernetesTasks(b) /\ gpc' = "gcv3"

NextGCLive ==
    \/ GetIdentityOK
    \/ GetIdentityErr
    \/ UnknownSourceOfTruth
    \/ FetchErr
    \/ \E b \in OneTaskBodies : mesosTasks(b)
    \/ \E b \in OnePodBodies : kubernetesTasks(b)
    \/ ResponseOK
    \/ GCV3Err
    \/ GetAssignmentOK
    \/ GetAssignmentErr
    \/ TeardownNetworkOK
    \/ TeardownNetworkErr
    \/ UnassignIPOK
    \/ UnassignIPErr
    \/ GCFinish
    \/ GCAgain

\* cycles follow each other, and a step that is tried again and again does
\* not fail for ever
GCFairness ==
    /\ WF_vars(GCFinish) /\ WF_vars(GCAgain)
    /\ SF_vars(GetIdentityOK) /\ SF_vars(TasksOK) /\ SF_vars(ResponseOK)
    /\ SF_vars(GetAssignmentOK) /\ SF_vars(TeardownNetworkOK)
    /\ SF_vars(UnassignIPOK)

\* a node that has run cycles before
InitGCLive ==
    /\ ReclaimIdle /\ ListIdle
    /\ FreshCycle
    /\ sourceOfTruth \in {"kubernetes", "mesos", "marathon"}
    /\ assignments \in SUBSET AssignedTasks
    /\ tornDown = {}
    /\ cycles = MaxCycles

SpecGCLive == InitGCLive /\ [][NextGCLive]_vars /\ GCFairness

\* the scheduler: the listing, then one loop per listed subnet until the
\* context is cancelled
\* the interfaces are clean, or the first candidate of subnet-a is not
FirstCandidateDirty ==
    CleanAddresses \cup {[e \in {MaxExcess} |-> [ipv4 |-> MaxIPv4, ipv6 |-> 0]]}

InitSched == InitReclaim({}, FirstCandidateDirty) /\ GCIdle /\ InitList

NextSched ==
    \/ getSubnets
    \/ StartLoops
    \/ AbortScheduling
    \/ Cancel
    \/ \E s \in Subnets : Cycle(s)
    \/ \E s \in Subnets : Sleep(s)
    \/ \E s \in Subnets : WaitForTimer(s)
    \/ \E s \in Subnets : WaitForCancelled(s)
    \/ \E e \in ExternallyDeletable : ExternalCloudDelete(e)

SpecSched == InitSched /\ [][NextSched]_vars

(***************************************************************************)
(* Properties of the reclaimer.                                            *)
(***************************************************************************)
\* the unattached branch interfaces of a subnet in the ledger
UnattachedInLedger(s) ==
    {e \in branch_enis : e \notin branch_eni_attachments /\ SubnetOf(e) = s}

\* the subnets that start with more than warmPoolPerSubnet unattached rows
StartsWithExcess(s) ==
    Cardinality({e \in AllENIs : SubnetOf(e) = s}) > warmPoolPerSubnet

Converged(s) == Cardinality(UnattachedInLedger(s)) = warmPoolPerSubnet

NeverBelowPool ==
    \A s \in Subnets :
        StartsWithExcess(s) => Cardinality(UnattachedInLedger(s)) >= warmPoolPerSubnet

\* the errors of a cycle that come from a call failing, not from what the
\* cycle found
TransientErrors == {"session", "begin", "scan", "describe", "commit"}

\* an invocation has returned without one of its calls failing
CycleRanThrough(s) == pc[s] = "wait" /\ ret[s].err \notin TransientErrors

\* the cycles of s are repeated: again and again one runs through
RepeatedCycles(s) == []<>CycleRanThrough(s)

\* C1: every subnet that starts with more than warmPoolPerSubnet unattached
\* interfaces, and whose reclaim cycles are repeated, eventually has exactly
\* warmPoolPerSubnet of them, and never has fewer.
C1_ConvergesAlways ==
    /\ []NeverBelowPool
    /\ \A s \in {"subnet-a"} :
          (StartsWithExcess(s) /\ RepeatedCycles(s)) => <>Converged(s)

\* C2: the reclaimer never commits the deletion of a row for which an
\* attachment row exists when the deleting transaction commits.
C2_NoCommitOfAttached ==
    [][\A s \in Subnets :
          (pc[s] = "commit" /\ pc'[s] = "cloudDelete")
              => branchENI[s] \notin branch_eni_attachments]_vars

\* an interface whose descriptor shows an IPv6 address or several IPv4 ones
ShowsExtraAddresses(e) ==
    e \in DOMAIN addresses /\ (addresses[e].ipv6 >= 1 \/ addresses[e].ipv4 > 1)

\* C3: when the descriptor of the selected candidate shows an IPv6 address or
\* more than one IPv4 address, the cycle returns an error, its transaction is
\* rolled back and never committed, the row stays in the ledger, and
\* DeleteNetworkInterface is not called for it.
C3_DirtyCandidateKept ==
    /\ [](\A e \in AllENIs :
            ShowsExtraAddresses(e)
                => e \in branch_enis /\ e \notin Range(cloudDeleteLog))
    /\ [][\A s \in Subnets :
            (/\ pc[s] = "describe" /\ pc'[s] # "describe"
             /\ branchENI[s] \in cloud
             /\ ShowsExtraAddresses(branchENI[s]))
                => /\ pc'[s] = "wait"
                   /\ ret'[s].err # NoErr /\ ~ret'[s].deleted
                   /\ tx'[s] = "rolledback"
                   /\ branchENI[s] \in branch_enis'
                   /\ cloudDeleteLog' = cloudDeleteLog]_vars

C3_Witness ==
    \E s \in Subnets :
        /\ pc[s] = "wait" /\ ret[s].err \in {"ipv6", "ipv4"}
        /\ ShowsExtraAddresses(branchENI[s])
        /\ tx[s] = "rolledback" /\ branchENI[s] \in branch_enis

\* C4: a committed ledger deletion followed by a cloud delete that reports the
\* interface as not found ends the cycle in success: a deletion is reported
\* and no error.
C4_NotFoundIsSuccess ==
    \A s \in Subnets :
        (pc[s] = "wait" /\ tx[s] = "committed" /\ deleteResp[s] = "notfound")
            => ret[s] = [deleted |-> TRUE, err |-> NoErr]

C4_Witness ==
    \E s \in Subnets :
        /\ pc[s] = "wait" /\ tx[s] = "committed" /\ deleteResp[s] = "notfound"
        /\ branchENI[s] \notin branch_enis

\* C5: a committed ledger deletion followed by a cloud delete that fails with
\* another error than not-found makes the cycle return an error, the row stays
\* deleted, the reclaimer has not removed the interface from the cloud, and no
\* interface is ever handed to DeleteNetworkInterface twice.
C5_LeakIsReported ==
    /\ \A s \in Subnets :
          (pc[s] = "wait" /\ tx[s] = "committed" /\ deleteResp[s] = "other")
              => /\ ret[s].err # NoErr /\ ~ret[s].deleted
                 /\ branchENI[s] \notin branch_enis
                 /\ branchENI[s] \in cloud \cup externallyDeleted
    /\ \A i, j \in DOMAIN cloudDeleteLog :
          i # j => cloudDeleteLog[i] # cloudDeleteLog[j]

\* a leak, and a later cycle of the same loop that deleted another interface
C5_Witness ==
    \E s \in Subnets : \E i \in DOMAIN cloudDeleteLog :
        /\ pc[s] = "wait" /\ tx[s] = "committed" /\ deleteResp[s] = "ok"
        /\ cloudDeleteLog[i] \in cloud
        /\ cloudDeleteLog[i] \notin branch_enis
        /\ i < Len(cloudDeleteLog)

\* C6: a cycle removes at most one row from the ledger; the row the statement
\* deletes is an unattached row of the subnet with at least warmPoolPerSubnet
\* newer unattached rows of the subnet in the statement's view; and when the
\* statement sees fewer than warmPoolPerSubnet + 1 unattached rows the cycle
\* returns (false, nil) and the ledger is unchanged.
C6_AtMostOneBeyondPool ==
    /\ [][\A s \in Subnets :
            (pc[s] = "delete" /\ pc'[s] = "describe")
                => /\ branchENI'[s] \in UnattachedInLedger(s)
                   /\ Cardinality({e \in UnattachedInLedger(s) : e > branchENI'[s]})
                          >= warmPoolPerSubnet]_vars
    /\ [][branch_enis' # branch_enis
            => \E s \in Subnets :
                  /\ pc[s] = "commit" /\ pc'[s] = "cloudDelete"
                  /\ branch_enis' = branch_enis \ {branchENI[s]}
                  /\ pc'[s] = "cloudDelete"]_vars
    /\ [][\A s \in Subnets :
            (/\ pc[s] = "delete" /\ pc'[s] # "delete"
             /\ Cardinality(UnattachedInLedger(s)) < warmPoolPerSubnet + 1
             /\ ret'[s].err # "scan")
                => /\ pc'[s] = "wait" /\ ret'[s] = NoRet
                   /\ tx'[s] = "rolledback"
                   /\ branch_enis' = branch_enis]_vars

\* a row was deleted while newer rows of the subnet were attached
C6_Witness ==
    \E s \in Subnets :
        /\ pc[s] = "cloudDelete"
        /\ branchENI[s] \notin branch_enis
        /\ \E e \in branch_eni_attachments : e > branchENI[s] /\ SubnetOf(e) = s

\* the delay the loop is to observe after an invocation that returned r
DelayAfter(r) ==
    CASE r.err # NoErr -> timeBetweenErrors
      [] r.err = NoErr /\ r.deleted -> timeBetweenDeletions
      [] OTHER -> timeBetweenNoDeletions

\* C10: the delay before the next invocation is the one of the outcome of the
\* invocation just finished, and the next invocation never starts before it
\* has elapsed.
C10_DelayFollowsOutcome ==
    /\ [](\A s \in Subnets : pc[s] = "wait" => resetTime[s] = DelayAfter(ret[s]))
    /\ [][\A s \in Subnets :
            (pc[s] = "wait" /\ pc'[s] = "call") => elapsed[s] >= DelayAfter(ret[s])]_vars

\* the loop has gone round after a deletion
C10_Witness ==
    \E s \in Subnets :
        /\ pc[s] = "call" /\ ret[s] = [deleted |-> TRUE, err |-> NoErr]
        /\ elapsed[s] = timeBetweenDeletions

(***************************************************************************)
(* Properties of GC3.                                                      *)
(***************************************************************************)
ItemOps == {"GetAssignment", "TeardownNetwork", "UnassignIP"}
RemoteOps == {"GCV3", "GetAssignment", "UnassignIP"}

IsItemCall(c) == c.op \in ItemOps

\* the per-item calls of the cycle, in order
ItemCalls == SelectSeq(calls, IsItemCall)

\* the cycle is over and had reached its per-item phase
ItemsDone ==
    /\ gpc = "done"
    /\ \E i \in DOMAIN calls : calls[i].op = "GCV3"
    /\ gcErr # "gcv3"

\* C7: a cycle whose GCV3 response flags exactly one stale task ID and in
\* which every step succeeds makes exactly one GetAssignment, one
\* TeardownNetwork and one UnassignIP call, all for that task ID, and returns
\* no error.
C7_OneStaleTask ==
    (ItemsDone /\ Len(removed) = 1 /\ faults = {})
        => /\ ItemCalls = <<Call("GetAssignment", removed[1]),
                            Call("TeardownNetwork", removed[1]),
                            Call("UnassignIP", removed[1])>>
           /\ gcErr = NoErr

\* running list [A, B], stale response [C]
C7_Witness ==
    /\ ItemsDone /\ faults = {}
    /\ req.running = <<"A", "B">>
    /\ removed = <<"C">>
    /\ gcErr = NoErr
    /\ "C" \in tornDown /\ "C" \notin assignments

FaultedTasks == {f.task : f \in faults}

\* C8: a failure for one task ID does not keep the other stale task IDs from
\* being processed: every stale task ID gets its GetAssignment, the ones
\* without a failure are torn down and unassigned, and the cycle returns the
\* aggregate error, which mentions exactly the task IDs that failed.
C8_BestEffortPerItem ==
    ItemsDone
        => /\ \A t \in Range(removed) :
                /\ Call("GetAssignment", t) \in Range(calls)
                /\ t \notin FaultedTasks
                      => /\ Call("TeardownNetwork", t) \in Range(calls)
                         /\ Call("UnassignIP", t) \in Range(calls)
                         /\ t \in tornDown
                         /\ t \notin assignments
           /\ Range(result) = FaultedTasks
           /\ (faults # {}) => gcErr = "aggregate"

\* teardown fails for C and succeeds for D
C8_Witness ==
    /\ ItemsDone
    /\ removed = <<"C", "D">>
    /\ faults = {Call("TeardownNetwork", "C")}
    /\ gcErr = "aggregate" /\ result = <<"C">>
    /\ "D" \in tornDown /\ "D" \notin assignments
    /\ "C" \in assignments

\* a task entry of the state document has an empty name
HasEmptyName(doc) ==
    \E f \in DOMAIN doc : \E e \in DOMAIN doc[f] : \E t \in DOMAIN doc[f][e] :
        doc[f][e][t].name = ""

EmptyNameFetched ==
    sourceOfTruth = "mesos" /\ body.decodes /\ HasEmptyName(body.doc)

\* C9: once a state document with an empty task name has been fetched, the
\* cycle is over with the parse error, and it made no call to the allocation
\* service and no local teardown.
C9_EmptyNameAborts ==
    EmptyNameFetched
        => /\ gpc = "done" /\ gcErr = "tasks"
           /\ \A i \in DOMAIN calls : calls[i].op \notin RemoteOps \cup ItemOps

\* the empty name follows a well-formed entry of another executor
C9_Witness ==
    /\ EmptyNameFetched
    /\ body.doc = << << <<[name |-> "A", state |-> "TASK_RUNNING"]>>,
                         <<[name |-> "", state |-> "TASK_RUNNING"]>> >> >>
    /\ gpc = "done" /\ gcErr = "tasks"

(***************************************************************************)
(* Properties of the loop and of the listing.                              *)
(***************************************************************************)
\* C11: the loop stops only when its context is cancelled, and the
\* stop reports no error.
C11_CleanStop ==
    \A s \in Subnets : pc[s] = "stopped" => cancelled /\ loopErr[s] = NoErr

\* C12: the delay after an error is the shortest, the delay after
\* a deletion lies between, the delay after an idle cycle is the longest.
C12_ErrorDelayShortest ==
    \A s \in Subnets :
        pc[s] = "wait"
            => /\ ret[s].err # NoErr => resetTime[s] < timeBetweenDeletions
               /\ (ret[s].err = NoErr /\ ret[s].deleted)
                     => (timeBetweenErrors < resetTime[s]
                            /\ resetTime[s] < timeBetweenNoDeletions)
               /\ (ret[s].err = NoErr /\ ~ret[s].deleted)
                     => timeBetweenDeletions < resetTime[s]

\* getSubnets has returned
Listed == lpc \in {"done", "started", "aborted"}

\* C13: getSubnets returns the complete sequence of subnets, or an error and
\* no list: when the query, the iteration over the rows, a scan or the commit
\* failed it returns an error, and the loops are never started on a part of
\* the subnets.
C13_CompleteOrError ==
    /\ Listed
          => IF lout.err # NoErr
             THEN lout.isNil
             ELSE ~lout.isNil /\ lout.list = subnetRows
    /\ lpc = "started" => items = Range(subnetRows)

(***************************************************************************)
(* Properties of the transaction of a cycle.                               *)
(***************************************************************************)
\* C14: DeleteNetworkInterface is only called for an interface whose row the
\* cycle's transaction has deleted and committed; when the commit fails the
\* cycle returns an error without calling it; so the reclaimer never removes
\* from the cloud an interface the ledger records.
C14_CloudDeleteAfterCommit ==
    /\ [](\A i \in DOMAIN cloudDeleteLog : cloudDeleteLog[i] \notin branch_enis)
    /\ [][cloudDeleteLog' # cloudDeleteLog
            => \E s \in Subnets :
                  /\ pc[s] = "cloudDelete" /\ tx[s] = "committed"
                  /\ branchENI[s] \notin branch_enis
                  /\ cloudDeleteLog' = Append(cloudDeleteLog, branchENI[s])]_vars
    /\ [][\A s \in Subnets :
            (pc[s] = "commit" /\ pc'[s] # "commit" /\ tx'[s] # "committed")
                => /\ pc'[s] = "wait"
                   /\ ret'[s].err # NoErr /\ ~ret'[s].deleted
                   /\ tx'[s] = "rolledback"
                   /\ branchENI[s] \in branch_enis'
                   /\ cloudDeleteLog' = cloudDeleteLog]_vars
    /\ [][\A e \in cloud \ cloud' :
            e \notin branch_enis' \/ e \in externallyDeleted']_vars

\* a commit failed after an earlier cycle had deleted another interface
C14_Witness ==
    \E s \in Subnets :
        /\ pc[s] = "wait" /\ ret[s].err = "commit"
        /\ branchENI[s] \in branch_enis /\ branchENI[s] \in cloud
        /\ cloudDeleteLog # <<>>

DescribeErrors == {"describe", "describe-notfound"}

\* C15: a cycle passes the describe step only with an answer of the cloud
\* about an interface that exists; when the describe fails, not-found
\* included, the cycle returns an error, its transaction is rolled back, the
\* row stays in the ledger and DeleteNetworkInterface is not called.
C15_DescribeFailureKeepsRow ==
    /\ [][\A s \in Subnets :
            (pc[s] = "describe" /\ pc'[s] = "commit") => branchENI[s] \in cloud]_vars
    /\ [][\A s \in Subnets :
            (pc[s] = "describe" /\ pc'[s] \notin {"describe", "commit"})
                => /\ pc'[s] = "wait"
                   /\ ret'[s].err # NoErr /\ ~ret'[s].deleted
                   /\ branchENI[s] \notin cloud => ret'[s].err = "describe-notfound"
                   /\ tx'[s] = "rolledback"
                   /\ branch_enis' = branch_enis /\ branchENI[s] \in branch_enis
                   /\ cloudDeleteLog' = cloudDeleteLog]_vars
    /\ [](\A s \in Subnets :
            (pc[s] = "wait" /\ ret[s].err \in DescribeErrors)
                => /\ tx[s] = "rolledback"
                   /\ branchENI[s] \in branch_enis
                   /\ \A i \in DOMAIN cloudDeleteLog : cloudDeleteLog[i] # branchENI[s])

\* the describe of a candidate that is gone from the cloud has failed
C15_Witness ==
    \E s \in Subnets :
        /\ pc[s] = "wait" /\ ret[s].err = "describe-notfound"
        /\ branchENI[s] \in branch_enis /\ branchENI[s] \notin cloud
        /\ tx[s] = "rolledback"

InsideCycleTx == {"delete", "describe", "commit"}

InsideListTx == {"query", "rows", "commit"}

BeforeCommitPoint == {"call", "begin", "delete", "describe", "commit"}

\* C16: the transaction of a cycle is open only between BeginTx and the
\* return, and the one of the listing likewise: after any return, cancelled
\* or timed out or not, it is committed or rolled back.  A cycle that returns
\* without having committed has changed no row of the ledger, and the ledger
\* changes only at a successful commit.
C16_NoOpenTxAfterExit ==
    /\ [](\A s \in Subnets : tx[s] = "open" => pc[s] \in InsideCycleTx)
    /\ [](ltx = "open" => lpc \in InsideListTx)
    /\ [][\A s \in Subnets :
            (pc[s] \in InsideCycleTx /\ pc'[s] = "wait")
                => /\ tx[s] = "open"
                   /\ tx'[s] = "rolledback"
                   /\ branch_enis' = branch_enis]_vars
    /\ [][\A s \in Subnets :
            (pc[s] \in BeforeCommitPoint /\ pc'[s] = "wait")
                => branch_enis' = branch_enis /\ tx'[s] # "open"]_vars
    /\ [][(lpc \in InsideListTx /\ lpc' = "done")
            => ltx = "open" /\ ltx' \in {"committed", "rolledback"}]_vars
    /\ [][branch_enis' # branch_enis
            => \E s \in Subnets :
                  /\ pc[s] = "commit" /\ tx[s] = "open" /\ tx'[s] = "committed"
                  /\ branch_enis' = branch_enis \ {branchENI[s]}]_vars

\* after the cancellation a cycle has returned from inside its transaction
C16_Witness ==
    /\ cancelled
    /\ lpc = "started" /\ ltx = "committed"
    /\ \E s \in Subnets :
          /\ pc[s] = "wait" /\ tx[s] = "rolledback"
          /\ ret[s].err \in {"scan", "describe", "commit"}
          /\ branchENI[s] \in branch_enis

InvocationRunning == {"call", "begin", "delete", "describe", "commit", "cloudDelete"}

\* C17: an invocation of doDeleteExcessBranches for a subnet starts only from
\* the wait that follows the return of the previous one, once the delay has
\* passed and the context is not done; an invocation leaves only by returning
\* into that wait; and a transaction is begun only by an invocation that has
\* none, so no two transactions of a subnet's loop are ever in flight.
C17_CyclesSequential ==
    /\ [][\A s \in Subnets :
            (pc'[s] = "call" /\ pc[s] # "call")
                => /\ pc[s] = "wait"
                   /\ elapsed[s] >= resetTime[s] /\ resetTime[s] > 0
                   /\ ~cancelled
                   /\ tx[s] # "open"]_vars
    /\ [][\A s \in Subnets :
            (pc[s] \in InvocationRunning /\ pc'[s] \notin InvocationRunning)
                => pc'[s] = "wait" /\ elapsed'[s] = 0 /\ tx'[s] # "open"]_vars
    /\ [][\A s \in Subnets :
            (tx'[s] = "open" /\ tx[s] # "open") => pc[s] = "begin" /\ tx[s] = "none"]_vars
    /\ [](\A s \in Subnets : pc[s] \in {"call", "begin", "wait", "stopped"} => tx[s] # "open")

\* a second invocation is in its transaction, after the delay of the first
C17_Witness ==
    \E s \in Subnets :
        /\ pc[s] = "describe" /\ tx[s] = "open"
        /\ ret[s].deleted
        /\ elapsed[s] >= resetTime[s]
        /\ cloudDeleteLog # <<>>

(***************************************************************************)
(* Properties of the steps of a GC3 cycle.                                 *)
(***************************************************************************)
StepOrder == <<"GetAssignment", "TeardownNetwork", "UnassignIP">>

\* the per-item calls made for task t, in order
ItemCallsOf(t) ==
    LET IsOf(c) == IsItemCall(c) /\ c.task = t
    IN  SelectSeq(calls, IsOf)

CalledTasks == {ItemCalls[i].task : i \in DOMAIN ItemCalls}

\* C18: the per-item calls made for a task ID are a beginning of
\* GetAssignment, TeardownNetwork, UnassignIP, one after the other with no
\* call for another task ID in between and none repeated; a step is made only
\* when the step before it succeeded; and every task ID they are made for is
\* in the list GCV3 answered.
C18_StepsInOrder ==
    /\ CalledTasks \subseteq Range(removed)
    /\ \A t \in CalledTasks :
          LET mine == ItemCallsOf(t)
          IN  /\ Len(mine) <= Len(StepOrder)
              /\ \A i \in DOMAIN mine :
                    /\ mine[i].op = StepOrder[i]
                    /\ i > 1 => Call(StepOrder[i - 1], t) \notin faults
    /\ \A i, j \in DOMAIN ItemCalls :
          (i < j /\ ItemCalls[i].task = ItemCalls[j].task)
              => \A k \in i..j : ItemCalls[k].task = ItemCalls[i].task

\* the fetch failed for C and the teardown for D
C18_Witness ==
    /\ gpc = "done"
    /\ removed = <<"C", "D">>
    /\ ItemCalls = <<Call("GetAssignment", "C"), Call("GetAssignment", "D"),
                     Call("TeardownNetwork", "D")>>
    /\ faults = {Call("GetAssignment", "C"), Call("TeardownNetwork", "D")}

KnownSourcesOfTruth == {"kubernetes", "mesos"}

\* the recorded assignments of tasks that no document ever lists as running
NeverRunning == AssignedTasks \ TaskNames

\* C19: a cycle starts with nothing of the cycle before; the soft GCV3 call
\* removes no assignment, only a successful UnassignIP does, so the task ID
\* of a failed step is still recorded; GCV3 flags every recorded assignment
\* that is not running, and an item is always entered at GetAssignment; and
\* when the cycles repeat and no step fails for ever, every assignment of a
\* task that is not running is unassigned in the end.
C19_SelfHealing ==
    /\ [](\A t \in FaultedTasks : t \in assignments)
    /\ [][assignments' # assignments
            => /\ AtItem("unassign")
               /\ assignments' = assignments \ {removed[idx]}
               /\ faults' = faults]_vars
    /\ [][(gpc = "gcv3" /\ gpc' = "items")
            => /\ req.soft
               /\ Range(removed') = StaleAssignments(assignments', req.running)]_vars
    /\ [][(gpc = "done" /\ gpc' # "done")
            => /\ gpc' = "start" /\ calls' = <<>> /\ faults' = {}
               /\ result' = <<>> /\ removed' = <<>> /\ req' = NoReq
               /\ gcErr' = NoErr]_vars
    /\ []((gpc = "items" /\ idx <= Len(removed) /\ ItemCallsOf(removed[idx]) = <<>>)
            => step = "get")
    /\ (sourceOfTruth \in KnownSourcesOfTruth)
          => <>(assignments \cap NeverRunning = {})

\* in a later cycle C, torn down in an earlier one whose unassign failed, has
\* been fetched again and is about to be torn down again
C19_Witness ==
    /\ "C" \in tornDown /\ "C" \in assignments
    /\ AtItem("teardown") /\ removed[idx] = "C"
    /\ ItemCallsOf("C") = <<Call("GetAssignment", "C")>>

(***************************************************************************)
(* Properties of the running-task list.                                    *)
(***************************************************************************)
\* the places of the task entries of a state document
EntriesOf(doc) ==
    UNION {UNION {{<<f, e, t>> : t \in DOMAIN doc[f][e]} : e \in DOMAIN doc[f]} :
              f \in DOMAIN doc}

\* how often the name n is in the sequence of names sq
Occurrences(sq, n) == Cardinality({i \in DOMAIN sq : sq[i] = n})

\* the cycle has a running-task list
RunningListed ==
    \/ gpc \in {"gcv3", "items"}
    \/ gpc = "done" /\ gcErr \notin {"identity", "tasks"}

\* C20: the running-task list has one element per task entry of the
\* document, terminal ones included: for a state document, each name as often
\* as there are entries of that name under any executor of any framework; for
\* a pod list, the key of each pod at the place of the pod.  A document that
\* decodes yields no list only when one of its entries has an empty name.
C20_EveryEntryListed ==
    /\ (RunningListed /\ sourceOfTruth = "mesos")
          => /\ body.decodes
             /\ Len(req.running) = Cardinality(EntriesOf(body.doc))
             /\ \A n \in TaskNames :
                   Occurrences(req.running, n)
                       = Cardinality({p \in EntriesOf(body.doc) :
                                         body.doc[p[1]][p[2]][p[3]].name = n})
    /\ (RunningListed /\ sourceOfTruth = "kubernetes")
          => /\ body.decodes
             /\ Len(req.running) = Len(body.doc)
             /\ \A i \in DOMAIN body.doc : req.running[i] = body.doc[i].key
    /\ (gpc = "done" /\ gcErr = "tasks" /\ body.decodes)
          => sourceOfTruth = "mesos" /\ HasEmptyName(body.doc)

\* a running task of one executor and a finished task of another are listed
C20_Witness ==
    /\ sourceOfTruth = "mesos" /\ gpc = "gcv3"
    /\ body.doc = << << <<[name |-> "A", state |-> "TASK_RUNNING"]>>,
                         <<[name |-> "B", state |-> "TASK_FINISHED"]>> >> >>
    /\ req.running = <<"A", "B">>

(***************************************************************************)
(* Properties of the request and of the phases of a GC3 cycle.             *)
(***************************************************************************)
\* the list the source of truth of the cycle gives for the fetched document
RunningOf(b) ==
    IF sourceOfTruth = "mesos" THEN parseMesosTasksBody(b)
    ELSE parseKubernetesTasksBody(b)

\* the request the cycle sends, or has sent, with GCV3
RequestComplete ==
    /\ req.identity = "node"
    /\ req.soft
    /\ body.decodes
    /\ ~RunningOf(body).err
    /\ req.running = RunningOf(body).tasks

GCV3Called == \E i \in DOMAIN calls : calls[i].op = "GCV3"

\* C21: when a cycle calls GCV3, and ever after in that cycle, the request
\* holds the identity the provider answered, the list parsed from the document
\* this cycle fetched, and soft = true; a new cycle starts from an empty
\* request.
C21_RequestComplete ==
    /\ []((gpc = "gcv3" \/ GCV3Called) => RequestComplete)
    /\ [][(gpc = "gcv3" /\ gpc' # "gcv3")
            => /\ req' = req /\ req.soft
               /\ calls' = Append(calls, Call("GCV3", ""))]_vars
    /\ [][(gpc = "done" /\ gpc' = "start") => req' = NoReq /\ body' = Malformed]_vars

\* a later cycle has sent the request for the running tasks A and B
C21_Witness ==
    /\ cycles >= 2
    /\ GCV3Called /\ gpc = "items"
    /\ req = [identity |-> "node", running |-> <<"A", "B">>, soft |-> TRUE]

EarlyErrors == {"identity", "tasks", "gcv3"}

OpsOfCalls == [i \in DOMAIN calls |-> calls[i].op]

\* C22: a per-item call is made only in a cycle whose GetIdentity, fetch and
\* parse of the running tasks, and GCV3 call were made in that order and all
\* succeeded.  A cycle that leaves one of these three phases by returning
\* returns an error and has made no per-item call; when GetIdentity fails it
\* is the only call of the cycle, and an unknown source of truth is not
\* fetched.
C22_ItemsAfterPreamble ==
    /\ []((gpc = "items" \/ ItemCalls # <<>>)
            => /\ Len(calls) >= 3
               /\ <<OpsOfCalls[1], OpsOfCalls[2], OpsOfCalls[3]>>
                      = <<"GetIdentity", "Get", "GCV3">>
               /\ req.identity = "node"
               /\ sourceOfTruth \in KnownSourcesOfTruth
               /\ body.decodes /\ ~RunningOf(body).err
               /\ gcErr \notin EarlyErrors)
    /\ [][(gpc \in {"start", "tasks", "gcv3"} /\ gpc' = "done")
            => gcErr' \in EarlyErrors /\ gcErr' # NoErr]_vars
    /\ []((gpc = "done" /\ gcErr \in EarlyErrors)
            => /\ ItemCalls = <<>>
               /\ gcErr = "identity" => calls = <<Call("GetIdentity", "")>>
               /\ (gcErr = "tasks" /\ sourceOfTruth \notin KnownSourcesOfTruth)
                     => calls = <<Call("GetIdentity", "")>>
               /\ gcErr = "tasks" => \A i \in DOMAIN calls : calls[i].op # "GCV3")

\* the GCV3 call failed while stale assignments were recorded
C22_Witness ==
    /\ gpc = "done" /\ gcErr = "gcv3"
    /\ OpsOfCalls = <<"GetIdentity", "Get", "GCV3">>
    /\ StaleAssignments(assignments, req.running) # {}

\* C23: a cycle whose GCV3 call succeeded returns the aggregate error when a
\* per-item call failed and no error otherwise; the aggregate holds one
\* error for each task ID with a failed call and no other; and an empty
\* response gives no per-item call and no error.
C23_ErrorIffItemFailed ==
    ItemsDone
        => /\ gcErr \in {NoErr, "aggregate"}
           /\ gcErr = "aggregate" <=> faults # {}
           /\ Len(result) = Cardinality(FaultedTasks)
           /\ \A t \in FaultedTasks : Occurrences(result, t) = 1
           /\ \A i \in DOMAIN result : result[i] \in FaultedTasks
           /\ Cardinality(faults) = Cardinality(FaultedTasks)
           /\ removed = <<>> => (gcErr = NoErr /\ ItemCalls = <<>>)

\* the fetch failed for C and the unassign for D
C23_Witness ==
    /\ ItemsDone
    /\ removed = <<"C", "D">>
    /\ faults = {Call("GetAssignment", "C"), Call("UnassignIP", "D")}
    /\ result = <<"C", "D">>
    /\ gcErr = "aggregate"

(***************************************************************************)
(* The rows a cycle changes.                                               *)
(***************************************************************************)
\* this step is a step of the loop of subnet s
CycleStep(s) ==
    <<pc[s], tx[s], branchENI[s], deleteResp[s], ret[s]>>'
        # <<pc[s], tx[s], branchENI[s], deleteResp[s], ret[s]>>

\* a step of the loop of s changes no attachment row and no row of another
\* subnet, adds no row, and removes at most one row
CycleLeavesOthers ==
    [][\A s \in Subnets :
          CycleStep(s)
              => /\ branch_eni_attachments' = branch_eni_attachments
                 /\ branch_enis' \subseteq branch_enis
                 /\ Cardinality(branch_enis \ branch_enis') <= 1
                 /\ \A e \in branch_enis \ branch_enis' : SubnetOf(e) = s]_vars

\* a step of the loop of s removes no row that has an attachment row
CycleLeavesAttached ==
    [][\A s \in Subnets :
          CycleStep(s)
              => \A e \in branch_enis \ branch_enis' :
                    e \notin branch_eni_attachments]_vars

\* C24: a reclaim cycle for subnet s changes no row of another subnet, no
\* row of s that has an attachment row and no attachment row; all it changes
\* in the ledger is the removal of one unattached branch-interface row of s.
C24_OnlyUnattachedRowOfSubnet == CycleLeavesOthers /\ CycleLeavesAttached

====
